---- MODULE Spec2Model ----
(***************************************************************************)
(* Wire sorts and well-connectedness of PyRTL modules.                     *)
(*                                                                         *)
(* Part A (specification Spec): sealed, annotated modules of one scope are *)
(* wired together; every connection to a module input goes through        *)
(* _ModInput.__ilshift__ (pyrtl/module.py) and the eager checker           *)
(* error_if_not_well_connected (pyrtl/helpfulness.py).                     *)
(*                                                                         *)
(* module.py hands the checker its two wires as (other, self) while the    *)
(* checker names them (to_wire, from_wire) and asserts that to_wire is the *)
(* module input and from_wire the module output; the two files also differ *)
(* in the class names (_ModInput / ModInput).  The model binds each wire   *)
(* to the parameter whose class it has.  A right-hand side that is not a   *)
(* module output carries no sort, so the checker has no verdict for it and *)
(* WireVector.__ilshift__ installs the net.                                *)
(*                                                                         *)
(* Part B (specifications SpecAnnotate, SpecNested, SpecCache,            *)
(* SpecAscribe, SpecDefine): modules                                       *)
(* are instantiated, defined net by net, sealed by the rest of             *)
(* Module.__init__ and annotated by wiresorts.annotate_module, which       *)
(* computes the sorts with _build_intramodular_reachability_maps or takes  *)
(* them from block.module_sorts.  module.py imports its annotator from     *)
(* helpfulness.py; the annotator modelled in Part B is the one of          *)
(* wiresorts.py, whose class names (_ModInput, _ModOutput) module.py uses. *)
(*                                                                         *)
(* SpecWalk, SpecFrame and SpecDrive are further specifications of Part B: *)
(* the traversals step by step, the annotation of modules of one class in  *)
(* one scope, and the assignments to module outputs.                       *)
(*                                                                         *)
(* Part C (specifications SpecBatch, SpecUnannotated): the modules of      *)
(* Part A are wired with no check at the connection and the scope is       *)
(* checked at the end by wiresorts.check_module_interconnections; in       *)
(* SpecUnannotated one module has no sorts.                                *)
(*                                                                         *)
(* Part D (specifications SpecFifo, SpecFifoRun): the Fifo of              *)
(* pyrtl/rtllib/fifos.py, simulated cycle by cycle from registers and      *)
(* memory at 0.  SpecFifo takes any inputs; SpecFifoRun takes reset = 1 in *)
(* the first cycle at most and keeps the elements accepted and delivered.  *)
(***************************************************************************)
EXTENDS Integers, FiniteSets, Sequences, TLC

(* ---- bounds of the model ---- *)
NumMods == 3
NumPlain == 1
NumRegs == 1
MaxNets == 3

(* ---- wires: <<kind, owner, index>> ---- *)
Modules == 1..NumMods
InPorts == {1, 2}
OutPorts == {1}
ModInputs == {<<"I", m, p>> : m \in Modules, p \in InPorts}
ModOutputs == {<<"O", m, p>> : m \in Modules, p \in OutPorts}
PlainWires == {<<"W", 0, k>> : k \in 1..NumPlain}
Registers == {<<"R", 0, k>> : k \in 1..NumRegs}
NoWire == <<"none", 0, 0>>

IsModInput(w) == w[1] = "I"
IsModOutput(w) == w[1] = "O"
IsRegister(w) == w[1] = "R"
ModuleOf(w) == w[2]
InputsOf(m) == {<<"I", m, p>> : p \in InPorts}
OutputsOf(m) == {<<"O", m, p>> : p \in OutPorts}

(* The internal combinational dependencies a sealed module can have: the  *)
(* set of its input ports that reach its output without a register (the   *)
(* other ports feed a register).  The instances are interchangeable, so    *)
(* the circuits are taken with the shapes in descending order.            *)
Shapes == {{}, {1}, {1, 2}}
Circuits == {f \in [Modules -> Shapes] : \A m \in Modules : m = 1 \/ f[m] \subseteq f[m - 1]}

VARIABLES
    nets,     \* the block's LogicNets: [op, args, dest, asyn]
    intdep,   \* intdep[m]: pairs <<input, output>> joined combinationally inside m
    sort,     \* sort[w]: the sort of every module boundary wire
    last,     \* the last attempt to drive a wire: [to, from, result]
    mods,     \* the modules instantiated so far, in order of instantiation, each
              \* with its class, parent, ports and the sorts its ports were declared with
    stack,    \* the modules whose definition is running, innermost last
    cache,    \* block.module_sorts: class name -> (port name -> sort)
    limits,   \* the bounds of the specification that is running
    err,      \* the exception that ended the program, or "none"
    report,   \* the batch check of the scope: its outcome, the bad connections it
              \* lists, its reachability map, and whether a connection made so far
              \* is one the eager check rejects
    fifo,     \* a Fifo of rtllib/fifos.py: its parameters, registers and memory
    pins,     \* the values on the inputs of the Fifo in the current cycle
    trace     \* the elements the Fifo accepted and delivered in the cycles before

vars == <<nets, intdep, sort, last, mods, stack, cache, limits, err, report,
          fifo, pins, trace>>
modvars == <<mods, stack, cache, limits, err, report>>
fifovars == <<fifo, pins, trace>>

EmptyFcn == [x \in {} |-> 0]
NoLimits == [mods |-> 0]
NoReport == [batch |-> "none", bad |-> {}, map |-> {}, eager |-> FALSE]
NoFifo == [nels |-> 0]
NoPins == [reset |-> 0]
NoTrace == [first |-> TRUE]

(* ---- sorts (helpfulness.py 18-64, 121-139) ---- *)
Free == [tag |-> "Free", set |-> {}]
Giving == [tag |-> "Giving", set |-> {}]
Needed(s) == [tag |-> "Needed", set |-> s]
Dependent(s) == [tag |-> "Dependent", set |-> s]

get_wire_sort(dep, wire) ==
    IF IsModInput(wire)
    THEN LET affects == {o \in OutputsOf(ModuleOf(wire)) : <<wire, o>> \in dep}
         IN IF affects # {} THEN Needed(affects) ELSE Free
    ELSE LET depends == {i \in InputsOf(ModuleOf(wire)) : <<i, wire>> \in dep}
         IN IF depends # {} THEN Dependent(depends) ELSE Giving

(* ---- the netlist substrate ---- *)
Net(op, args, dest, asyn) == [op |-> op, args |-> args, dest |-> dest, asyn |-> asyn]
DstNets(ns, w) == {n \in ns : w \in n.args}
DestsOf(ns, w) == {n.dest : n \in {x \in DstNets(ns, w) : x.dest # NoWire}}
is_driven(ns, w) == \E n \in ns : n.dest = w
is_used(ns, w) == DstNets(ns, w) # {}

(* ---- helpfulness._modular_affects_iter ---- *)
IsStopWire(w) == IsModInput(w) \/ IsRegister(w)

RECURSIVE AffectsLoop(_, _, _)
AffectsLoop(ns, tocheck, affects) ==
    IF tocheck = {} THEN affects
    ELSE LET w == CHOOSE x \in tocheck : TRUE
             rest == tocheck \ {w}
         IN IF w \in affects THEN AffectsLoop(ns, rest, affects)
            ELSE IF IsStopWire(w) THEN AffectsLoop(ns, rest, affects \cup {w})
            ELSE AffectsLoop(ns, rest \cup DestsOf(ns, w), affects \cup {w})

modular_affects_iter(ns, wire) ==
    IF IsStopWire(wire) THEN {wire}
    ELSE IF ~is_used(ns, wire) THEN {wire}
    ELSE AffectsLoop(ns, DestsOf(ns, wire), {})

(* ---- helpfulness._modular_forward_reachability ---- *)
AffectedModInputs(ns, w) == {x \in modular_affects_iter(ns, w) : IsModInput(x)}
AwaitingOf(ns, srt, w) == UNION {srt[mi].set : mi \in AffectedModInputs(ns, w)}

RECURSIVE ToCheckClosure(_, _, _, _)
ToCheckClosure(ns, srt, to_check, done) ==
    IF to_check = {} THEN done
    ELSE LET w == CHOOSE x \in to_check : TRUE
         IN ToCheckClosure(ns, srt,
                (to_check \cup AwaitingOf(ns, srt, w)) \ (done \cup {w}), done \cup {w})

(* a variant that stops at the first module inputs reached *)
modular_forward_reachability_one_hop(ns, srt, wire) == AffectedModInputs(ns, wire)

(* The wires the loop takes from to_check, and the module inputs it has    *)
(* collected when to_check runs empty.                                     *)
modular_forward_reachability(ns, srt, wire) ==
    UNION {AffectedModInputs(ns, w) : w \in ToCheckClosure(ns, srt, {wire}, {})}

(* to_check is a set with no record of the wires already taken: a wire is  *)
(* put back whenever a module input it leads to is awaited by it, so the   *)
(* loop never ends iff some wire it takes leads back to itself.            *)
forward_reachability_diverges(ns, srt, wire) ==
    \E w \in ToCheckClosure(ns, srt, {wire}, {}) :
        w \in ToCheckClosure(ns, srt, AwaitingOf(ns, srt, w), {})

(* ---- helpfulness.error_if_not_well_connected ---- *)
TrivialLoop(srt, to_wire, from_wire) ==
    to_wire \in srt[from_wire].set \/ from_wire \in srt[to_wire].set

CheckedNets(ns, srt, to_wire) == UNION {DstNets(ns, a) : a \in srt[to_wire].set}

NetHits(ns, srt, from_wire, net) ==
    /\ net.dest # NoWire
    /\ ~forward_reachability_diverges(ns, srt, net.dest)
    /\ srt[from_wire].set \cap
          (modular_forward_reachability(ns, srt, net.dest) \cup {net.dest}) # {}

(* The outcomes of the body of the check; the order in which the sets and  *)
(* the nets of dst_dict are iterated decides which net is examined first.  *)
LoopVerdicts(ns, srt, to_wire, from_wire) ==
    IF TrivialLoop(srt, to_wire, from_wire) THEN {"connection_error"}
    ELSE LET cn == CheckedNets(ns, srt, to_wire)
             hit == \E n \in cn : NetHits(ns, srt, from_wire, n)
             hang == \E n \in cn : n.dest # NoWire
                                   /\ forward_reachability_diverges(ns, srt, n.dest)
             crash == \E n \in cn : n.dest = NoWire
         IN (IF hit THEN {"connection_error"} ELSE {})
            \cup (IF hang THEN {"hang"} ELSE {})
            \cup (IF crash THEN {"index_error"} ELSE {})
            \cup (IF ~hit /\ ~hang /\ ~crash THEN {"ok"} ELSE {})

(* a variant that examines the nets whatever the two sorts are *)
error_if_not_well_connected_any_sort(ns, srt, to_wire, from_wire) ==
    LoopVerdicts(ns, srt, to_wire, from_wire)

error_if_not_well_connected(ns, srt, to_wire, from_wire) ==
    IF ~(srt[to_wire].tag = "Needed" /\ srt[from_wire].tag = "Dependent")
    THEN {"ok"}
    ELSE LoopVerdicts(ns, srt, to_wire, from_wire)

(* ---- module._ModInput.__ilshift__ ---- *)
(* a variant that installs the net before the check *)
ModInput_ilshift_installs_first(ns, srt, self, other) ==
    IF is_driven(ns, self)
    THEN {[nets |-> ns, result |-> "already_driven"]}
    ELSE LET verdicts == IF IsModOutput(other)
                         THEN error_if_not_well_connected(ns, srt, self, other)
                         ELSE {"ok"}
         IN {[nets |-> ns \cup {Net("w", {other}, self, FALSE)},
              result |-> IF v = "ok" THEN "accepted" ELSE v] : v \in verdicts}

ModInput_ilshift(ns, srt, self, other) ==
    IF is_driven(ns, self)
    THEN {[nets |-> ns, result |-> "already_driven"]}
    ELSE LET verdicts == IF IsModOutput(other)
                         THEN error_if_not_well_connected(ns, srt, self, other)
                         ELSE {"ok"}
         IN {[nets |-> IF v = "ok" THEN ns \cup {Net("w", {other}, self, FALSE)} ELSE ns,
              result |-> IF v = "ok" THEN "accepted" ELSE v] : v \in verdicts}

Attempt(to, from, result) == [to |-> to, from |-> from, result |-> result]
NoAttempt == Attempt(NoWire, NoWire, "none")
Hung == last.result \in {"hang"}
Sources == ModOutputs \cup PlainWires \cup Registers

Init ==
    /\ nets = {}
    /\ \E shp \in Circuits :
          /\ intdep = [m \in Modules |->
                          {<<(<<"I", m, p>>), (<<"O", m, 1>>)>> : p \in shp[m]}]
          /\ sort = [w \in ModInputs \cup ModOutputs |->
                          get_wire_sort({<<(<<"I", ModuleOf(w), p>>), (<<"O", ModuleOf(w), 1>>)>>
                                           : p \in shp[ModuleOf(w)]}, w)]
    /\ last = NoAttempt
    /\ mods = <<>>
    /\ stack = <<>>
    /\ cache = EmptyFcn
    /\ limits = NoLimits
    /\ err = "none"
    /\ report = NoReport
    /\ fifo = NoFifo
    /\ pins = NoPins
    /\ trace = NoTrace

(* self <<= other on a module input *)
ConnectModInput ==
    /\ ~Hung
    /\ Cardinality(nets) < MaxNets
    /\ \E self \in ModInputs, other \in Sources :
          \E r \in ModInput_ilshift(nets, sort, self, other) :
              /\ nets' = r.nets
              /\ last' = Attempt(self, other, r.result)
    /\ UNCHANGED <<intdep, sort, modvars, fifovars>>

(* w <<= other on an ordinary wire: WireVector.__ilshift__ / _build *)
WireAssign ==
    /\ ~Hung
    /\ Cardinality(nets) < MaxNets
    /\ \E w \in PlainWires : \E other \in Sources \ {w} :
          /\ ~is_driven(nets, w)
          /\ nets' = nets \cup {Net("w", {other}, w, FALSE)}
    /\ last' = NoAttempt
    /\ UNCHANGED <<intdep, sort, modvars, fifovars>>

(* w = a op b: WireVector._two_var_op makes a new wire and its net *)
TwoVarOp ==
    /\ ~Hung
    /\ Cardinality(nets) < MaxNets
    /\ \E w \in PlainWires : \E a \in Sources \ {w}, b \in Sources \ {w} :
          /\ a # b
          /\ ~is_driven(nets, w) /\ ~is_used(nets, w)
          /\ nets' = nets \cup {Net("&", {a, b}, w, FALSE)}
    /\ last' = NoAttempt
    /\ UNCHANGED <<intdep, sort, modvars, fifovars>>

(* r.next <<= other: Register.next setter / Register._build *)
RegisterNext ==
    /\ ~Hung
    /\ Cardinality(nets) < MaxNets
    /\ \E r \in Registers, other \in (ModOutputs \cup PlainWires) :
          /\ ~is_driven(nets, r)
          /\ nets' = nets \cup {Net("r", {other}, r, FALSE)}
    /\ last' = NoAttempt
    /\ UNCHANGED <<intdep, sort, modvars, fifovars>>

(* w = mem[addr]: a read port, net 'm' whose memory is asynchronous or not *)
MemRead ==
    /\ ~Hung
    /\ Cardinality(nets) < MaxNets
    /\ \E w \in PlainWires : \E addr \in Sources \ {w}, asyn \in BOOLEAN :
          /\ ~is_driven(nets, w) /\ ~is_used(nets, w)
          /\ nets' = nets \cup {Net("m", {addr}, w, asyn)}
    /\ last' = NoAttempt
    /\ UNCHANGED <<intdep, sort, modvars, fifovars>>

(* mem[addr] <<= data: a write port, net '@' with no destination wire *)
MemWrite ==
    /\ ~Hung
    /\ Cardinality(nets) < MaxNets
    /\ \E data \in ModOutputs \cup PlainWires :
          /\ Net("@", {data}, NoWire, FALSE) \notin nets
          /\ nets' = nets \cup {Net("@", {data}, NoWire, FALSE)}
    /\ last' = NoAttempt
    /\ UNCHANGED <<intdep, sort, modvars, fifovars>>

Next ==
    \/ ConnectModInput
    \/ WireAssign
    \/ TwoVarOp
    \/ RegisterNext
    \/ MemRead
    \/ MemWrite

Spec == Init /\ [][Next]_vars

(***************************************************************************)
(* Reference notions, stated on the flattened circuit.                     *)
(***************************************************************************)
IsCombNet(n) == n.dest # NoWire /\ n.op # "r" /\ ~(n.op = "m" /\ ~n.asyn)
CombEdges(ns) == UNION {{<<a, n.dest>> : a \in n.args} : n \in {x \in ns : IsCombNet(x)}}
InteriorEdges == UNION {intdep[m] : m \in Modules}
FlatEdges(ns) == CombEdges(ns) \cup InteriorEdges
SortEdges == UNION {{<<i, o>> : o \in sort[i].set} : i \in ModInputs}

Succ(E, S) == {e[2] : e \in {x \in E : x[1] \in S}}

RECURSIVE ReachFrom(_, _, _)
ReachFrom(E, frontier, seen) ==
    IF frontier = {} THEN seen
    ELSE ReachFrom(E, Succ(E, frontier) \ (seen \cup frontier), seen \cup frontier)

(* wires reachable in one or more steps *)
ReachPlus(E, w) == ReachFrom(E, Succ(E, {w}), {})

CombCycleThroughBoundary(ns) ==
    \E b \in ModInputs \cup ModOutputs : b \in ReachPlus(FlatEdges(ns), b)

NetsBefore == IF last.result = "accepted" THEN {n \in nets : n.dest # last.to} ELSE nets
IsCheckedAttempt == last.result \notin {"none", "already_driven"} /\ IsModOutput(last.from)

\* C1: after any sequence of connection attempts among sealed modules the
\* installed wiring together with the modules' internal combinational
\* dependencies has no combinational cycle through a module boundary wire.
C1_NoCombinationalCycle == ~CombCycleThroughBoundary(nets)

\* C2: a proposed connection output -> input is rejected with a connection
\* error iff the input is in R, or the output is in N, or some r in R is
\* combinationally reachable from some n in N through the installed wiring
\* outside module interiors (modules crossed by their sorts); otherwise it
\* is accepted.
C2_Illegal(ns, i, o) ==
    \/ i \in sort[o].set
    \/ o \in sort[i].set
    \/ \E n \in sort[i].set :
          sort[o].set \cap ReachPlus(CombEdges(ns) \cup SortEdges, n) # {}

C2_RejectsExactlyIllegal ==
    IsCheckedAttempt =>
        /\ last.result \in {"connection_error", "accepted"}
        /\ last.result = "connection_error" <=> C2_Illegal(NetsBefore, last.to, last.from)

\* C3: when a connection attempt to a module input is rejected with a
\* connection error the netlist is as before, the input is still undriven
\* and a later legal connection to it (from an ordinary wire, a register or
\* a Giving output) is still accepted.
C3_RejectionLeavesNetlist ==
    [][last'.result = "connection_error" =>
          /\ nets' = nets
          /\ ~is_driven(nets', last'.to)
          /\ \A other \in PlainWires \cup Registers
                                \cup {o \in ModOutputs : sort[o].tag = "Giving"} :
                ModInput_ilshift(nets', sort', last'.to, other)
                  = {[nets |-> nets' \cup {Net("w", {other}, last'.to, FALSE)},
                      result |-> "accepted"]}]_vars

C3_Witness ==
    /\ last.result = "connection_error"
    /\ nets # {}
    /\ ModuleOf(last.to) # ModuleOf(last.from)

\* C4: k >= 1 instances whose output depends combinationally on the chained
\* input: the k-1 connections of the chain are accepted in any order, and
\* with them installed and nothing else the connection that closes the ring
\* is rejected with a connection error (k = 3: m2.a <<= m1.b, m3.a <<= m2.b, m1.a <<= m3.b;
\* k = 1: m.a <<= m.b).
Chains == UNION {{c \in [1..k -> Modules] : \A x, y \in 1..k : x # y => c[x] # c[y]}
                 : k \in 1..NumMods}
PortChoices(c) == {q \in [1..Len(c) -> InPorts] :
                      \A j \in 1..Len(c) : <<"I", c[j], q[j]>> \in sort[<<"O", c[j], 1>>].set}
ChainLink(c, q, j) == Net("w", {<<"O", c[j], 1>>}, <<"I", c[j + 1], q[j + 1]>>, FALSE)
ChainNets(c, q) == {ChainLink(c, q, j) : j \in 1..(Len(c) - 1)}

C4_RingClosingRejected ==
    \A c \in Chains : \A q \in PortChoices(c) :
        /\ nets = ChainNets(c, q) =>
              ModInput_ilshift(nets, sort, <<"I", c[1], q[1]>>, <<"O", c[Len(c)], 1>>)
                = {[nets |-> nets, result |-> "connection_error"]}
        /\ nets \subseteq ChainNets(c, q) =>
              \A j \in 1..(Len(c) - 1) :
                  ChainLink(c, q, j) \notin nets =>
                      ModInput_ilshift(nets, sort, <<"I", c[j + 1], q[j + 1]>>, <<"O", c[j], 1>>)
                        = {[nets |-> nets \cup {ChainLink(c, q, j)}, result |-> "accepted"]}

C4_Witness ==
    /\ \E c \in Chains : \E q \in PortChoices(c) :
          /\ Len(c) = 3
          /\ nets = ChainNets(c, q)
          /\ last = Attempt(<<"I", c[1], q[1]>>, <<"O", c[3], 1>>, "connection_error")

\* C5: a connection whose input is Free or whose output is Giving is never
\* rejected by the check, whatever is already connected; three registered
\* instances can be connected into a ring and one to itself.
C5_FreeOrGivingAccepted ==
    (IsCheckedAttempt /\ (sort[last.to].tag = "Free" \/ sort[last.from].tag = "Giving"))
        => last.result = "accepted"

C5_Witness ==
    /\ \A m \in Modules : sort[<<"O", m, 1>>].tag = "Giving"
    /\ \E c \in Chains :
          /\ Len(c) = 3
          /\ nets = {Net("w", {<<"O", c[j], 1>>}, <<"I", c[(j % 3) + 1], 1>>, FALSE) : j \in 1..3}
    /\ last.result = "accepted"

\* C6: the check has no false positives: a connection is rejected only if
\* installing it would create a combinational cycle in the flattened
\* circuit.
C6_NoFalsePositive ==
    (IsCheckedAttempt /\ last.result = "connection_error")
        => last.from \in ReachPlus(FlatEdges(nets), last.to) \cup {last.to}

(***************************************************************************)
(* Part B: modules are instantiated, defined, sealed and annotated         *)
(* (Module.__init__ in pyrtl/module.py, annotate_module in                 *)
(* pyrtl/wiresorts.py).  The wires made in the definition of module m have *)
(* owner m; a port is named after its direction and index.                 *)
(***************************************************************************)

(* ---- bounds of the specifications of Part B ---- *)
AnnotateMods == 1
AnnotatePorts == 2
AnnotatePlain == 2
AnnotateNets == 5
NestedMods == 3
NestedPorts == 2
NestedPlain == 0
NestedNets == 6
CacheMods == 2
CachePorts == 2
CacheNets == 4

AnnotateLimits ==
    [mods |-> AnnotateMods, depth |-> 1, minports |-> AnnotatePorts, maxin |-> AnnotatePorts,
     maxout |-> AnnotatePorts, plain |-> AnnotatePlain, regs |-> 1, nets |-> AnnotateNets,
     classes |-> 0, asc |-> FALSE, tops |-> AnnotateMods, inst |-> FALSE, maxasc |-> 0]
NestedLimits ==
    [mods |-> NestedMods, depth |-> NestedMods, minports |-> 1, maxin |-> NestedPorts,
     maxout |-> 1, plain |-> NestedPlain, regs |-> 1, nets |-> NestedNets,
     classes |-> 0, asc |-> FALSE, tops |-> 1, inst |-> FALSE, maxasc |-> 0]
CacheLimits ==
    [mods |-> CacheMods, depth |-> 1, minports |-> 1, maxin |-> CachePorts,
     maxout |-> CachePorts, plain |-> 0, regs |-> 1, nets |-> CacheNets,
     classes |-> 1, asc |-> TRUE, tops |-> CacheMods, inst |-> FALSE,
     maxasc |-> CachePorts + CachePorts]

AscribeMods == 1
AscribePorts == 2
AscribeNets == 4
AscribeLimits ==
    [mods |-> AscribeMods, depth |-> 1, minports |-> 1, maxin |-> AscribePorts,
     maxout |-> 1, plain |-> 1, regs |-> 1, nets |-> AscribeNets,
     classes |-> 1, asc |-> TRUE, tops |-> AscribeMods, inst |-> TRUE,
     maxasc |-> AscribePorts]

DefineMods == 2
DefinePorts == 2
DefineNets == 5
DefineLimits ==
    [mods |-> DefineMods, depth |-> DefineMods, minports |-> 1, maxin |-> DefinePorts,
     maxout |-> 1, plain |-> 0, regs |-> 1, nets |-> DefineNets,
     classes |-> 0, asc |-> FALSE, tops |-> 1, inst |-> FALSE, maxasc |-> 0]

WalkMods == 2
WalkPorts == 2
WalkPlain == 1
WalkNets == 5
WalkLimits ==
    [mods |-> WalkMods, depth |-> WalkMods, minports |-> 1, maxin |-> WalkPorts,
     maxout |-> WalkPorts, plain |-> WalkPlain, regs |-> 1, nets |-> WalkNets,
     classes |-> 0, asc |-> FALSE, tops |-> 1, inst |-> FALSE, maxasc |-> 0]

FrameMods == 3
FramePorts == 2
FrameNets == 6
FrameLimits ==
    [mods |-> FrameMods, depth |-> 2, minports |-> 1, maxin |-> FramePorts,
     maxout |-> 1, plain |-> 0, regs |-> 1, nets |-> FrameNets,
     classes |-> 1, asc |-> FALSE, tops |-> 1, inst |-> FALSE, maxasc |-> 0]

(* ---- modules and their wires ---- *)
ModIds == 1..Len(mods)
BInputs(m) == {<<"I", m, k>> : k \in 1..mods[m].nin}
BOutputs(m) == {<<"O", m, k>> : k \in 1..mods[m].nout}
BPlain(m) == {<<"W", m, k>> : k \in 1..limits.plain}
BRegs(m) == {<<"R", m, k>> : k \in 1..limits.regs}
OriginalName(w) == <<w[1], w[3]>>
HasPort(m, name) == <<name[1], m, name[2]>> \in BInputs(m) \cup BOutputs(m)
GetAttr(m, name) == <<name[1], m, name[2]>>
SealedChildren(m) == {c \in ModIds : mods[c].parent = m /\ mods[c].sealed}
CurrentModule == stack[Len(stack)]

(* ---- the sorts of wiresorts.py ---- *)
NoSort == [tag |-> "None", set |-> {}, asc |-> "none"]
ws_Free(ascription) == [tag |-> "Free", set |-> {}, asc |-> ascription]
ws_Needed(needed_by_set, ascription) ==
    [tag |-> "Needed", set |-> needed_by_set, asc |-> ascription]
ws_Giving(ascription) == [tag |-> "Giving", set |-> {}, asc |-> ascription]
ws_Dependent(depends_on_set, ascription) ==
    [tag |-> "Dependent", set |-> depends_on_set, asc |-> ascription]
ClassAscription(tag) == [tag |-> tag, set |-> {}, asc |-> "class"]
InputAscriptions == {NoSort, ClassAscription("Free"), ClassAscription("Needed")}
OutputAscriptions == {NoSort, ClassAscription("Giving"), ClassAscription("Dependent")}
(* sort=Needed({'b'}): an instance whose set holds the names of the wires *)
InputInstances ==
    {ws_Free("True")} \cup {ws_Needed(S, "True") : S \in SUBSET {<<"O", k>> : k \in 1..limits.maxout}}
OutputInstances ==
    {ws_Giving("True")} \cup {ws_Dependent(S, "True") : S \in SUBSET {<<"I", k>> : k \in 1..limits.maxin}}

(* ---- wiresorts._build_intramodular_reachability_maps ---- *)
SrcNet(ns, w) == CHOOSE n \in ns : n.dest = w

(* the failure that taking wire a from the work list raises, if any *)
IntraError(srt, output, a) ==
    IF IsRegister(a) \/ ModuleOf(a) = ModuleOf(output) THEN "none"
    ELSE IF ~IsModOutput(a) THEN "PyrtlInternalError"
    ELSE IF srt[a].tag = "None" THEN "PyrtlInternalError"
    ELSE IF srt[a].asc = "class" THEN "AssertionError"
    ELSE "none"

(* variants of the step below: one goes on through a register, one goes on *)
(* through every memory read, one leaves a submodule by all of its inputs  *)
IntraExpand_through_registers(ns, srt, output, a) ==
    IF IntraError(srt, output, a) # "none" THEN {}
    ELSE IF ModuleOf(a) # ModuleOf(output) /\ ~IsRegister(a)
         THEN UNION {SrcNet(ns, affector).args
                       : affector \in {x \in srt[a].set : is_driven(ns, x)}}
         ELSE IF ~is_driven(ns, a) THEN {}
              ELSE LET src_net == SrcNet(ns, a)
                   IN IF src_net.op = "m" /\ ~src_net.asyn THEN {}
                      ELSE IF IsModInput(a) THEN {}
                      ELSE src_net.args

IntraExpand_through_memories(ns, srt, output, a) ==
    IF IsRegister(a) \/ IntraError(srt, output, a) # "none" THEN {}
    ELSE IF ModuleOf(a) # ModuleOf(output)
         THEN UNION {SrcNet(ns, affector).args
                       : affector \in {x \in srt[a].set : is_driven(ns, x)}}
         ELSE IF ~is_driven(ns, a) THEN {}
              ELSE IF IsModInput(a) THEN {}
              ELSE SrcNet(ns, a).args

IntraExpand_all_inputs(ns, srt, output, a) ==
    IF IsRegister(a) \/ IntraError(srt, output, a) # "none" THEN {}
    ELSE IF ModuleOf(a) # ModuleOf(output)
         THEN UNION {SrcNet(ns, affector).args
                       : affector \in {x \in DOMAIN srt :
                                          /\ IsModInput(x) /\ ModuleOf(x) = ModuleOf(a)
                                          /\ is_driven(ns, x)}}
         ELSE IF ~is_driven(ns, a) THEN {}
              ELSE LET src_net == SrcNet(ns, a)
                   IN IF src_net.op = "m" /\ ~src_net.asyn THEN {}
                      ELSE IF IsModInput(a) THEN {}
                      ELSE src_net.args

(* the wires that taking wire a from the work list puts on it *)
IntraExpand(ns, srt, output, a) ==
    IF IsRegister(a) \/ IntraError(srt, output, a) # "none" THEN {}
    ELSE IF ModuleOf(a) # ModuleOf(output)
         THEN UNION {SrcNet(ns, affector).args
                       : affector \in {x \in srt[a].set : is_driven(ns, x)}}
         ELSE IF ~is_driven(ns, a) THEN {}
              ELSE LET src_net == SrcNet(ns, a)
                   IN IF src_net.op = "m" /\ ~src_net.asyn THEN {}
                      ELSE IF IsModInput(a) THEN {}
                      ELSE src_net.args

RECURSIVE IntraSeen(_, _, _, _, _)
IntraSeen(ns, srt, output, work_list, seen) ==
    IF work_list = {} THEN seen
    ELSE LET a == CHOOSE x \in work_list : TRUE
             rest == work_list \ {a}
         IN IF a \in seen THEN IntraSeen(ns, srt, output, rest, seen)
            ELSE IntraSeen(ns, srt, output,
                           rest \cup IntraExpand(ns, srt, output, a), seen \cup {a})

RecordsNeededBy(output, a) ==
    ~IsRegister(a) /\ ModuleOf(a) = ModuleOf(output) /\ a # output

build_intramodular_reachability_maps(ns, srt, m) ==
    LET seen == [output \in BOutputs(m) |-> IntraSeen(ns, srt, output, {output}, {})]
        needed_by == [i \in BInputs(m) |->
                         {output \in BOutputs(m) :
                             i \in seen[output] /\ RecordsNeededBy(output, i)}]
    IN [needed_by |-> needed_by,
        depends_on |-> [output \in BOutputs(m) |->
                           {i \in BInputs(m) : output \in needed_by[i]}],
        errors |-> UNION {{IntraError(srt, output, a) : a \in seen[output]}
                            : output \in BOutputs(m)} \ {"none"}]

(* ---- wiresorts._make_wire_sort ---- *)
(* a variant that gives a sort to the reached wires only *)
make_wire_sort_reached_only(wire, needed_by, depends_on) ==
    IF IsModInput(wire)
    THEN IF needed_by[wire] # {} THEN ws_Needed(needed_by[wire], "False") ELSE NoSort
    ELSE IF depends_on[wire] # {} THEN ws_Dependent(depends_on[wire], "False") ELSE NoSort

(* a variant that makes an output depend on every input of the module     *)
make_wire_sort_every_input(wire, needed_by, depends_on) ==
    IF IsModInput(wire)
    THEN IF needed_by[wire] # {} THEN ws_Needed(needed_by[wire], "False")
         ELSE ws_Free("wire")
    ELSE IF depends_on[wire] # {} THEN ws_Dependent(DOMAIN needed_by, "False")
         ELSE ws_Giving("wire")

make_wire_sort(wire, needed_by, depends_on) ==
    IF IsModInput(wire)
    THEN IF needed_by[wire] # {} THEN ws_Needed(needed_by[wire], "False")
         ELSE ws_Free("wire")
    ELSE IF depends_on[wire] # {} THEN ws_Dependent(depends_on[wire], "False")
         ELSE ws_Giving("wire")

(* ---- wiresorts.sort_matches ---- *)
(* a variant with the subsort relation F <: N, G <: D for class ascriptions *)
sort_matches_subsort(ascription, srt) ==
    IF ascription.asc = "class"
    THEN \/ srt.tag = ascription.tag
         \/ ascription.tag = "Needed" /\ srt.tag = "Free"
         \/ ascription.tag = "Dependent" /\ srt.tag = "Giving"
    ELSE IF ascription.tag \in {"Free", "Giving"} THEN srt.tag = ascription.tag
    ELSE srt.tag = ascription.tag
         /\ ascription.set = {OriginalName(w) : w \in srt.set}

sort_matches(ascription, srt) ==
    IF ascription.asc = "class" THEN srt.tag = ascription.tag
    ELSE IF ascription.tag \in {"Free", "Giving"} THEN srt.tag = ascription.tag
    ELSE srt.tag = ascription.tag
         /\ ascription.set = {OriginalName(w) : w \in srt.set}

(* ---- wiresorts.annotate_module ---- *)
(* The ports are taken in the order of a Python set: when one of them      *)
(* raises, any of the others may already have its sort.                    *)
Outcome(srt, cch, e, hit) == [sort |-> srt, cache |-> cch, err |-> e, cached |-> hit]

(* a variant that gives the new sort of a port to the ports of that name   *)
(* of every module                                                         *)
AssignSorts_by_name(srt, done, new) ==
    [w \in DOMAIN srt |->
        IF \E d \in done : OriginalName(d) = OriginalName(w)
        THEN new[CHOOSE d \in done : OriginalName(d) = OriginalName(w)]
        ELSE srt[w]]

AssignSorts(srt, done, new) == [w \in DOMAIN srt |-> IF w \in done THEN new[w] ELSE srt[w]]

CachedSortError(m, sorts, io) ==
    IF OriginalName(io) \notin DOMAIN sorts THEN "KeyError"
    ELSE IF \E w \in sorts[OriginalName(io)].set : ~HasPort(m, OriginalName(w))
         THEN "AttributeError"
    ELSE "none"

(* a variant that copies the cached sets without update_set *)
CachedSort_shared_wires(m, sorts, io) ==
    LET srt == sorts[OriginalName(io)]
    IN IF srt.tag = "Free" THEN ws_Free("False")
       ELSE IF srt.tag = "Giving" THEN ws_Giving("False")
       ELSE IF srt.tag = "Needed" THEN ws_Needed(srt.set, "False")
       ELSE ws_Dependent(srt.set, "False")

CachedSort(m, sorts, io) ==
    LET srt == sorts[OriginalName(io)]
        update_set == {GetAttr(m, OriginalName(w)) : w \in srt.set}
    IN IF srt.tag = "Free" THEN ws_Free("False")
       ELSE IF srt.tag = "Giving" THEN ws_Giving("False")
       ELSE IF srt.tag = "Needed" THEN ws_Needed(update_set, "False")
       ELSE ws_Dependent(update_set, "False")

annotate_from_cache(srt, cch, m) ==
    LET ios == BInputs(m) \cup BOutputs(m)
        sorts == cch[mods[m].cls]
        bad == {io \in ios : CachedSortError(m, sorts, io) # "none"}
        new == [io \in ios \ bad |-> CachedSort(m, sorts, io)]
    IN IF bad = {} THEN {Outcome(AssignSorts(srt, ios, new), cch, "none", TRUE)}
       ELSE {Outcome(AssignSorts(srt, done, new), cch, CachedSortError(m, sorts, io), TRUE)
               : io \in bad, done \in SUBSET (ios \ bad)}

(* the message of the mismatch is built from io.sort.__name__, which a     *)
(* class has and an instance of a sort class has not                       *)
MismatchError(ascription) ==
    IF ascription.asc = "class" THEN "ascription_mismatch" ELSE "AttributeError"

annotate_fresh(ns, srt, cch, m) ==
    LET ios == BInputs(m) \cup BOutputs(m)
        maps == build_intramodular_reachability_maps(ns, srt, m)
        new == [io \in ios |-> make_wire_sort(io, maps.needed_by, maps.depends_on)]
        bad == {io \in ios : srt[io] # NoSort /\ ~sort_matches(srt[io], new[io])}
        sortmap == [name \in {OriginalName(io) : io \in ios} |-> new[GetAttr(m, name)]]
    IN IF maps.errors # {} THEN {Outcome(srt, cch, e, FALSE) : e \in maps.errors}
       ELSE IF bad = {}
            THEN {Outcome(AssignSorts(srt, ios, new),
                          [c \in DOMAIN cch \cup {mods[m].cls} |->
                              IF c = mods[m].cls THEN sortmap ELSE cch[c]],
                          "none", FALSE)}
            ELSE {Outcome(AssignSorts(srt, done, new), cch, MismatchError(srt[io]), FALSE)
                    : io \in bad, done \in SUBSET (ios \ bad)}

annotate_module(ns, srt, cch, m) ==
    IF mods[m].cls \in DOMAIN cch THEN annotate_from_cache(srt, cch, m)
    ELSE annotate_fresh(ns, srt, cch, m)

(* ---- Module._check_all_io_internally_connected ---- *)
(* a variant that looks at the outputs only *)
check_outputs_internally_connected(ns, m) ==
    \A wire \in BOutputs(m) : is_driven(ns, wire)

check_all_io_internally_connected(ns, m) ==
    /\ \A wire \in BInputs(m) : is_used(ns, wire)
    /\ \A wire \in BOutputs(m) : is_driven(ns, wire)

(* ---- the specifications of Part B ---- *)
InitModules(lim) ==
    /\ nets = {}
    /\ intdep = EmptyFcn
    /\ sort = EmptyFcn
    /\ last = NoAttempt
    /\ mods = <<>>
    /\ stack = <<>>
    /\ cache = EmptyFcn
    /\ limits = lim
    /\ err = "none"
    /\ report = NoReport
    /\ fifo = NoFifo
    /\ pins = NoPins
    /\ trace = NoTrace

Running == err = "none"
Defining == Running /\ stack # <<>> /\ Cardinality(nets) < limits.nets
Readable(m) ==
    BInputs(m) \cup BPlain(m) \cup BRegs(m) \cup UNION {BOutputs(c) : c \in SealedChildren(m)}
ClassChoices(id) == IF limits.classes = 0 THEN {id} ELSE 1..limits.classes
PortAscriptions(id, nin, nout) ==
    LET ins == {<<"I", id, k>> : k \in 1..nin}
        outs == {<<"O", id, k>> : k \in 1..nout}
        inputsorts == InputAscriptions \cup (IF limits.inst THEN InputInstances ELSE {})
        outputsorts == OutputAscriptions \cup (IF limits.inst THEN OutputInstances ELSE {})
    IN {f \in [ins \cup outs -> inputsorts \cup outputsorts] :
          /\ \A w \in ins : f[w] \in inputsorts
          /\ \A w \in outs : f[w] \in outputsorts
          /\ limits.asc \/ \A w \in ins \cup outs : f[w] = NoSort
          /\ Cardinality({w \in ins \cup outs : f[w] # NoSort}) <= limits.maxasc}

(* M(): Module.__init__ up to the port declarations of the definition *)
BeginModule ==
    /\ Running
    /\ Len(mods) < limits.mods
    /\ Len(stack) < limits.depth
    /\ stack = <<>> => Cardinality({m \in ModIds : mods[m].parent = 0}) < limits.tops
    /\ LET id == Len(mods) + 1
       IN \E cls \in ClassChoices(id) :
          \E nin \in limits.minports..limits.maxin, nout \in limits.minports..limits.maxout :
          \E asc \in PortAscriptions(id, nin, nout) :
             /\ mods' = Append(mods, [cls |-> cls,
                                      parent |-> IF stack = <<>> THEN 0 ELSE CurrentModule,
                                      nin |-> nin, nout |-> nout,
                                      sealed |-> FALSE, cached |-> FALSE, decl |-> asc])
             /\ stack' = Append(stack, id)
             /\ sort' = [w \in DOMAIN sort \cup DOMAIN asc |->
                            IF w \in DOMAIN asc THEN asc[w] ELSE sort[w]]
    /\ UNCHANGED <<nets, intdep, last, cache, limits, err, report, fifovars>>

(* o <<= other in the definition: _ModOutput.__ilshift__ *)
ModOutputAssign ==
    /\ Defining
    /\ \E self \in BOutputs(CurrentModule) : \E other \in Readable(CurrentModule) :
          /\ ~is_driven(nets, self)
          /\ nets' = nets \cup {Net("w", {other}, self, FALSE)}
    /\ UNCHANGED <<intdep, sort, last, modvars, fifovars>>

(* w <<= other on a wire of the definition *)
InnerWireAssign ==
    /\ Defining
    /\ \E w \in BPlain(CurrentModule) : \E other \in Readable(CurrentModule) \ {w} :
          /\ ~is_driven(nets, w)
          /\ \A v \in BPlain(CurrentModule) : v[3] < w[3] => is_driven(nets, v)
          /\ nets' = nets \cup {Net("w", {other}, w, FALSE)}
    /\ UNCHANGED <<intdep, sort, last, modvars, fifovars>>

(* w = a op b in the definition *)
InnerTwoVarOp ==
    /\ Defining
    /\ \E w \in BPlain(CurrentModule) :
       \E a \in Readable(CurrentModule) \ {w}, b \in Readable(CurrentModule) \ {w} :
          /\ a # b
          /\ ~is_driven(nets, w) /\ ~is_used(nets, w)
          /\ \A v \in BPlain(CurrentModule) : v[3] < w[3] => is_driven(nets, v)
          /\ nets' = nets \cup {Net("&", {a, b}, w, FALSE)}
    /\ UNCHANGED <<intdep, sort, last, modvars, fifovars>>

(* r.next <<= other in the definition *)
InnerRegisterNext ==
    /\ Defining
    /\ \E r \in BRegs(CurrentModule) : \E other \in Readable(CurrentModule) \ {r} :
          /\ ~is_driven(nets, r)
          /\ nets' = nets \cup {Net("r", {other}, r, FALSE)}
    /\ UNCHANGED <<intdep, sort, last, modvars, fifovars>>

(* w = mem[addr] in the definition *)
InnerMemRead ==
    /\ Defining
    /\ \E w \in BPlain(CurrentModule) :
       \E addr \in Readable(CurrentModule) \ {w}, asyn \in BOOLEAN :
          /\ ~is_driven(nets, w) /\ ~is_used(nets, w)
          /\ \A v \in BPlain(CurrentModule) : v[3] < w[3] => is_driven(nets, v)
          /\ nets' = nets \cup {Net("m", {addr}, w, asyn)}
    /\ UNCHANGED <<intdep, sort, last, modvars, fifovars>>

(* mem[addr] <<= data in the definition *)
InnerMemWrite ==
    /\ Defining
    /\ \E data \in Readable(CurrentModule) :
          /\ Net("@", {data}, NoWire, FALSE) \notin nets
          /\ nets' = nets \cup {Net("@", {data}, NoWire, FALSE)}
    /\ UNCHANGED <<intdep, sort, last, modvars, fifovars>>

(* sub.x <<= other in the definition of the module that holds sub *)
ConnectSubmoduleInput ==
    /\ Defining
    /\ \E sub \in SealedChildren(CurrentModule) :
       \E self \in BInputs(sub), other \in Readable(CurrentModule) :
       \E r \in ModInput_ilshift(nets, sort, self, other) :
          /\ nets' = r.nets
          /\ err' = IF r.result = "accepted" THEN "none" ELSE r.result
    /\ UNCHANGED <<intdep, sort, last, mods, stack, cache, limits, report, fifovars>>

(* the modules whose in_definition flag is set *)
InDefinition(stk) == {stk[k] : k \in 1..Len(stk)}

(* a variant of the connection that does not look at in_definition *)
ModInput_ilshift_any_module(ns, srt, stk, self, other) ==
    ModInput_ilshift(ns, srt, self, other)

(* self <<= other on a module input, with the test of in_definition that   *)
(* comes first in _ModInput.__ilshift__                                    *)
ModInput_ilshift_in_definition(ns, srt, stk, self, other) ==
    IF ModuleOf(self) \in InDefinition(stk)
    THEN {[nets |-> ns, result |-> "in_definition_error"]}
    ELSE ModInput_ilshift(ns, srt, self, other)

(* x <<= other in a definition, x an input of a module being defined or of *)
(* a sealed module held by the current one; the attempt is kept in last    *)
ConnectInDefinition ==
    /\ Defining
    /\ \E self \in UNION {BInputs(m) : m \in InDefinition(stack)
                                            \cup SealedChildren(CurrentModule)} :
       \E other \in Readable(CurrentModule) \ {self} :
       \E r \in ModInput_ilshift_in_definition(nets, sort, stack, self, other) :
          /\ nets' = r.nets
          /\ last' = Attempt(self, other, r.result)
          /\ err' = IF r.result = "accepted" THEN "none" ELSE r.result
    /\ UNCHANGED <<intdep, sort, mods, stack, cache, limits, report, fifovars>>

(* a variant of the assignment that does not look at is_driven *)
ModOutput_ilshift_driven_again(ns, stk, self, other) ==
    IF ModuleOf(self) \notin InDefinition(stk)
    THEN {[nets |-> ns, result |-> "not_in_definition_error"]}
    ELSE {[nets |-> ns \cup {Net("w", {other}, self, FALSE)}, result |-> "accepted"]}

(* self <<= other on a module output: _ModOutput.__ilshift__ *)
ModOutput_ilshift(ns, stk, self, other) ==
    IF ModuleOf(self) \notin InDefinition(stk)
    THEN {[nets |-> ns, result |-> "not_in_definition_error"]}
    ELSE IF is_driven(ns, self)
    THEN {[nets |-> ns, result |-> "already_driven"]}
    ELSE {[nets |-> ns \cup {Net("w", {other}, self, FALSE)}, result |-> "accepted"]}

(* o <<= other in a definition, o an output of a module being defined or   *)
(* of a sealed module held by the current one, driven already or not       *)
AssignModOutput ==
    /\ Defining
    /\ \E self \in UNION {BOutputs(m) : m \in InDefinition(stack)
                                             \cup SealedChildren(CurrentModule)} :
       \E other \in Readable(CurrentModule) \ {self} :
       \E r \in ModOutput_ilshift(nets, stack, self, other) :
          /\ nets' = r.nets
          /\ last' = Attempt(self, other, r.result)
          /\ err' = IF r.result = "accepted" THEN "none" ELSE r.result
    /\ UNCHANGED <<intdep, sort, mods, stack, cache, limits, report, fifovars>>

(* the definition returns: the rest of Module.__init__ *)
EndModule ==
    /\ Running
    /\ stack # <<>>
    /\ LET m == CurrentModule
       IN IF ~check_all_io_internally_connected(nets, m)
          THEN /\ err' = "invalid_module"
               /\ UNCHANGED <<sort, cache, mods, stack>>
          ELSE \E r \in annotate_module(nets, sort, cache, m) :
                  /\ sort' = r.sort
                  /\ cache' = r.cache
                  /\ err' = r.err
                  /\ mods' = IF r.err = "none"
                             THEN [mods EXCEPT ![m].sealed = TRUE, ![m].cached = r.cached]
                             ELSE mods
                  /\ stack' = IF r.err = "none" THEN SubSeq(stack, 1, Len(stack) - 1)
                              ELSE stack
    /\ UNCHANGED <<nets, intdep, last, limits, report, fifovars>>

NextAnnotate ==
    \/ BeginModule
    \/ ModOutputAssign
    \/ InnerWireAssign
    \/ InnerTwoVarOp
    \/ InnerRegisterNext
    \/ InnerMemRead
    \/ InnerMemWrite
    \/ EndModule

NextNested ==
    \/ BeginModule
    \/ ModOutputAssign
    \/ InnerRegisterNext
    \/ ConnectSubmoduleInput
    \/ EndModule

NextCache ==
    \/ BeginModule
    \/ ModOutputAssign
    \/ InnerRegisterNext
    \/ EndModule

SpecAnnotate == InitModules(AnnotateLimits) /\ [][NextAnnotate]_vars
SpecNested == InitModules(NestedLimits) /\ [][NextNested]_vars
SpecCache == InitModules(CacheLimits) /\ [][NextCache]_vars

NextAscribe ==
    \/ BeginModule
    \/ ModOutputAssign
    \/ InnerTwoVarOp
    \/ InnerRegisterNext
    \/ EndModule

SpecAscribe == InitModules(AscribeLimits) /\ [][NextAscribe]_vars

NextDefine ==
    \/ BeginModule
    \/ ModOutputAssign
    \/ InnerRegisterNext
    \/ ConnectInDefinition
    \/ EndModule

SpecDefine == InitModules(DefineLimits) /\ [][NextDefine]_vars

NextDrive ==
    \/ BeginModule
    \/ AssignModOutput
    \/ InnerRegisterNext
    \/ ConnectInDefinition
    \/ EndModule

SpecDrive == InitModules(DefineLimits) /\ [][NextDrive]_vars

NextWalk ==
    \/ BeginModule
    \/ ModOutputAssign
    \/ InnerWireAssign
    \/ InnerRegisterNext
    \/ ConnectSubmoduleInput
    \/ EndModule

SpecWalk == InitModules(WalkLimits) /\ [][NextWalk]_vars

NextFrame ==
    \/ BeginModule
    \/ ModOutputAssign
    \/ InnerRegisterNext
    \/ ConnectInDefinition
    \/ EndModule

SpecFrame == InitModules(FrameLimits) /\ [][NextFrame]_vars

(***************************************************************************)
(* Reference notions of Part B, stated on the flattened netlist.           *)
(***************************************************************************)
RECURSIVE IsWithin(_, _)
IsWithin(c, m) == c = m \/ (c # 0 /\ IsWithin(mods[c].parent, m))

(* the nets of the definition of m and of the modules nested in it *)
InsideNets(m) ==
    {n \in nets : n.dest # NoWire /\ IsWithin(ModuleOf(n.dest), m) /\ n.dest \notin BInputs(m)}
CombPath(m, i, o) == o \in ReachPlus(CombEdges(InsideNets(m)), i)
SealedMods == {m \in ModIds : mods[m].sealed}
IsClocked(n) == n.op = "r" \/ (n.op = "m" /\ ~n.asyn)

\* C7: once annotate has returned for a sealed module every input of it
\* carries one computed sort that is Free or Needed and every output one that
\* is Giving or Dependent: no port is left without a sort or with its
\* ascription, be the wire reached by no traversal or the instance annotated
\* from the cache.
C7_EveryPortSorted ==
    \A m \in SealedMods :
        /\ \A i \in BInputs(m) :
              sort[i].tag \in {"Free", "Needed"} /\ sort[i].asc \in {"False", "wire"}
        /\ \A o \in BOutputs(m) :
              sort[o].tag \in {"Giving", "Dependent"} /\ sort[o].asc \in {"False", "wire"}

C7_Witness ==
    \E m \in SealedMods, f \in SealedMods :
        /\ mods[m].cached /\ ~mods[f].cached
        /\ \E i \in BInputs(m) : sort[i].tag = "Free"
        /\ \E i \in BInputs(f) : sort[i].tag = "Free"
        /\ \E o \in BOutputs(m) : sort[o].tag = "Dependent"

\* C8: for every sealed module m, input i and output o of m: o is in the
\* awaited-by set of i's sort iff a path leads from i to o through the nets
\* inside m that crosses no register and no synchronous memory read, and i
\* is in the depends-on set of o's sort under the same condition.
C8_AwaitedIffCombPath ==
    \A m \in SealedMods : \A i \in BInputs(m), o \in BOutputs(m) :
        /\ o \in sort[i].set <=> CombPath(m, i, o)
        /\ i \in sort[o].set <=> CombPath(m, i, o)

C8_Witness ==
    \E m \in SealedMods : \E i \in BInputs(m), j \in BInputs(m) :
        /\ sort[i].set = BOutputs(m)
        /\ Cardinality(BOutputs(m)) = 2
        /\ sort[j].tag = "Free"
        /\ \E n \in nets : n.op = "&" /\ i \in n.args

\* C9: clocked elements absorb the traversal and only they do: a dependency
\* recorded in a sort has a path that passes no register and no synchronous
\* memory read; an asynchronous read is crossed; an input that feeds only
\* register next-values, memory writes or synchronous reads is Free, and an
\* output driven only from a register is Giving.
C9_ClockedElementsAbsorb ==
    \A m \in SealedMods :
        /\ \A i \in BInputs(m), o \in BOutputs(m) :
              i \in sort[o].set =>
                  o \in ReachPlus(CombEdges({n \in InsideNets(m) : ~IsClocked(n)}), i)
        /\ \A i \in BInputs(m), o \in BOutputs(m) :
              (\E n \in nets, d \in nets :
                  /\ n.op = "m" /\ n.asyn /\ i \in n.args
                  /\ d.op = "w" /\ d.args = {n.dest} /\ d.dest = o)
                  => o \in sort[i].set
        /\ \A i \in BInputs(m) :
              (\A n \in DstNets(nets, i) : n.op = "@" \/ IsClocked(n)) => sort[i].tag = "Free"
        /\ \A o \in BOutputs(m) :
              (\A n \in nets : n.dest = o => \A a \in n.args : IsRegister(a))
                  => sort[o].tag = "Giving"

C9_Witness ==
    \E m \in SealedMods : \E i \in BInputs(m), j \in BInputs(m) :
    \E o \in BOutputs(m), p \in BOutputs(m) :
        /\ sort[i].tag = "Free" /\ sort[o].tag = "Giving"
        /\ \E n \in nets : n.op = "m" /\ ~n.asyn /\ n.args = {i}
                           /\ Net("w", {n.dest}, o, FALSE) \in nets
        /\ sort[p] = ws_Dependent({j}, "False")
        /\ \E n \in nets : n.op = "m" /\ n.asyn /\ n.args = {j}
                           /\ Net("w", {n.dest}, p, FALSE) \in nets

\* C10: for a module that holds annotated submodules, at any nesting depth,
\* the sorts got by jumping over each submodule are the sorts a traversal of
\* the fully flattened netlist gives for the boundary wires of the module.
C10_JumpOverIsFlattened ==
    \A m \in SealedMods :
        SealedChildren(m) # {} =>
            \A i \in BInputs(m), o \in BOutputs(m) :
                /\ o \in sort[i].set <=> CombPath(m, i, o)
                /\ i \in sort[o].set <=> CombPath(m, i, o)

C10_Witness ==
    \E m \in SealedMods, c \in SealedMods, g \in SealedMods :
        /\ mods[c].parent = m /\ mods[g].parent = c
        /\ \E i \in BInputs(m), o \in BOutputs(m) :
              /\ o \in sort[i].set
              /\ \E x \in BInputs(g) : x \in ReachPlus(CombEdges(InsideNets(m)), i)
        /\ \E i \in BInputs(c) : sort[i].tag = "Free"

(***************************************************************************)
(* Ascriptions, the connectivity check and the cache.                      *)
(***************************************************************************)
Ports(m) == BInputs(m) \cup BOutputs(m)
SealErrors ==
    {"invalid_module", "ascription_mismatch", "AttributeError", "KeyError",
     "PyrtlInternalError", "AssertionError"}

(* a step in which the definition of the current module returns *)
IsEndModuleStep ==
    /\ stack # <<>> /\ err = "none" /\ nets' = nets
    /\ Len(stack') < Len(stack) \/ err' \in SealErrors

(* every input is an argument of a net and every output a destination *)
Connected(m) ==
    /\ \A i \in BInputs(m) : \E n \in nets : i \in n.args
    /\ \A o \in BOutputs(m) : \E n \in nets : n.dest = o

(* the sort of a port by the paths of the netlist *)
RefSet(m, w) ==
    IF IsModInput(w) THEN {o \in BOutputs(m) : CombPath(m, w, o)}
    ELSE {i \in BInputs(m) : CombPath(m, i, w)}
RefTag(m, w) ==
    IF IsModInput(w) THEN (IF RefSet(m, w) = {} THEN "Free" ELSE "Needed")
    ELSE (IF RefSet(m, w) = {} THEN "Giving" ELSE "Dependent")

AscriptionHolds(m, w, a) ==
    \/ a.asc = "none"
    \/ a.asc = "class" /\ a.tag = RefTag(m, w)
    \/ /\ a.asc = "True"
       /\ a.tag = RefTag(m, w)
       /\ a.tag \in {"Needed", "Dependent"} => a.set = {OriginalName(x) : x \in RefSet(m, w)}

\* C11: when a connected module is annotated by fresh computation the
\* annotation succeeds iff every ascription holds: a bare tag iff the computed
\* sort has that variant, a full instance iff it has that variant and, for
\* Needed and Dependent, the ascribed names are the original names of the
\* computed members.
C11_AscriptionAcceptedExactly ==
    [][(IsEndModuleStep /\ Connected(CurrentModule)
          /\ mods[CurrentModule].cls \notin DOMAIN cache)
        => (err' = "none" <=>
               \A w \in Ports(CurrentModule) :
                   AscriptionHolds(CurrentModule, w, sort[w]))]_vars

C11_Witness ==
    \E m \in SealedMods : \E i \in BInputs(m), o \in BOutputs(m) :
        /\ mods[m].decl[i] = ws_Needed({OriginalName(o)}, "True")
        /\ mods[m].decl[o] = ClassAscription("Dependent")
        /\ sort[i] = ws_Needed({o}, "False")
        /\ Cardinality(sort[o].set) = 2

\* C12: whenever the definition of a connected module returns with an
\* ascription on one of its ports that does not match the computed sort, the
\* annotation fails with the ascription-mismatch error, for a class with an
\* entry in the cache too, and the failure adds nothing to the cache.
C12_MismatchAlwaysReported ==
    [][(IsEndModuleStep /\ Connected(CurrentModule)
          /\ \E w \in Ports(CurrentModule) : ~AscriptionHolds(CurrentModule, w, sort[w]))
        => (err' = "ascription_mismatch" /\ cache' = cache)]_vars

\* C13: construction runs the definition, then the connectivity check, then
\* the annotation: the definition of a module with an unused input or an
\* undriven output returns with the invalid-module error and with it only;
\* no port gets a computed sort, the cache is as before and the module is not
\* sealed.
C13_InvalidModuleBeforeAnnotation ==
    [][IsEndModuleStep =>
          /\ err' = "invalid_module" <=> ~Connected(CurrentModule)
          /\ ~Connected(CurrentModule) =>
                /\ sort' = sort /\ cache' = cache /\ mods' = mods
                /\ \A w \in Ports(CurrentModule) : sort'[w].asc \notin {"False", "wire"}]_vars

C13_Witness ==
    /\ err = "invalid_module"
    /\ Len(mods) = 2 /\ mods[1].sealed /\ ~mods[2].sealed
    /\ mods[2].cls \in DOMAIN cache
    /\ \E i \in BInputs(2) : ~is_used(nets, i)
    /\ \A o \in BOutputs(2) : is_driven(nets, o)
    /\ \E w \in Ports(2) : sort[w].asc = "class"

\* C14: an instance annotated from the cache and the instance of its class
\* annotated by fresh computation have corresponding sorts under the
\* bijection of the port names: the same variant on wires of the same name and
\* member sets that are images of each other, the members of the cached
\* instance being ports of that instance.
C14_CachedIsomorphic ==
    \A m \in SealedMods, f \in SealedMods :
        (mods[m].cached /\ ~mods[f].cached /\ mods[m].cls = mods[f].cls) =>
            \A w \in Ports(m) :
                LET v == GetAttr(f, OriginalName(w))
                IN /\ v \in Ports(f)
                   /\ sort[w].tag = sort[v].tag
                   /\ sort[w].set = {GetAttr(m, OriginalName(x)) : x \in sort[v].set}
                   /\ sort[w].set \subseteq Ports(m)
                   /\ sort[w].set \cap Ports(f) = {}

C14_Witness ==
    \E m \in SealedMods, f \in SealedMods :
        /\ mods[m].cached /\ ~mods[f].cached /\ mods[m].cls = mods[f].cls
        /\ \E i \in BInputs(m) : sort[i].tag = "Needed" /\ sort[i].set = BOutputs(m)
        /\ Cardinality(BOutputs(m)) = 2

\* C18: the sorts of an instance annotated from the cache are the sorts a
\* fresh intramodular computation on that instance gives, also when two
\* instances of one class differ in their internal wiring.
C18_CachedEqualsFresh ==
    \A m \in SealedMods :
        mods[m].cached =>
            LET maps == build_intramodular_reachability_maps(nets, sort, m)
            IN \A w \in Ports(m) :
                  LET fresh == make_wire_sort(w, maps.needed_by, maps.depends_on)
                  IN sort[w].tag = fresh.tag /\ sort[w].set = fresh.set

(***************************************************************************)
(* Part C (specification SpecBatch): the sealed modules of Part A are      *)
(* wired with no check at the connection, and the scope is checked at the  *)
(* end by wiresorts.check_module_interconnections (the mode that           *)
(* Module._check_all_well_connected of pyrtl/module.py describes).         *)
(***************************************************************************)

(* ---- wiresorts._build_intermodular_reachability_maps ---- *)
(* a variant that goes on through a register *)
InterExpand_through_registers(ns, srt, s) ==
    IF IsModOutput(s) THEN srt[s].set
    ELSE IF ~is_driven(ns, s) THEN {}
         ELSE LET src_net == SrcNet(ns, s)
              IN IF src_net.op = "m" /\ ~src_net.asyn THEN {}
                 ELSE IF src_net.op = "@" THEN {}
                 ELSE src_net.args

(* the wires that taking wire s from the work list puts on it *)
InterExpand(ns, srt, s) ==
    IF IsModOutput(s) THEN srt[s].set
    ELSE IF IsRegister(s) THEN {}
         ELSE IF ~is_driven(ns, s) THEN {}
              ELSE LET src_net == SrcNet(ns, s)
                   IN IF src_net.op = "m" /\ ~src_net.asyn THEN {}
                      ELSE IF src_net.op = "@" THEN {}
                      ELSE src_net.args

RECURSIVE InterSeen(_, _, _, _)
InterSeen(ns, srt, work_list, seen) ==
    IF work_list = {} THEN seen
    ELSE LET s == CHOOSE x \in work_list : TRUE
             rest == work_list \ {s}
         IN IF s \in seen THEN InterSeen(ns, srt, rest, seen)
            ELSE InterSeen(ns, srt, rest \cup InterExpand(ns, srt, s), seen \cup {s})

(* the pairs <<s, input>> of the wires s taken from the work list of input *)
InterReached(ns, srt, modules) ==
    UNION {{<<s, input>> : s \in InterSeen(ns, srt, {input}, {}) \ {input}}
             : input \in UNION {InputsOf(m) : m \in modules}}

(* the map restricted to the outputs, as the set of its pairs <<o, input>> *)
(* a variant that records the inputs of the other modules only *)
build_intermodular_reachability_maps_other_modules(ns, srt, modules) ==
    {c \in InterReached(ns, srt, modules) :
        IsModOutput(c[1]) /\ ModuleOf(c[2]) # ModuleOf(c[1])}

build_intermodular_reachability_maps(ns, srt, modules) ==
    {c \in InterReached(ns, srt, modules) : IsModOutput(c[1])}

(* wires_to_inputs[o], empty for the outputs of the modules never reached *)
InputsReached(wires_to_inputs, o) == {c[2] : c \in {x \in wires_to_inputs : x[1] = o}}

(* ---- wiresorts.find_bad_connection_from_module ---- *)
(* the connections from the module that the loops can come to first; the   *)
(* first one is returned                                                   *)
find_bad_connection_from(srt, outputs, wires_to_inputs) ==
    {c \in wires_to_inputs :
        /\ c[1] \in outputs
        /\ srt[c[1]].tag = "Dependent" /\ srt[c[2]].tag = "Needed"
        /\ \E depends_on_w \in srt[c[1]].set, needed_by_w \in srt[c[2]].set :
              <<needed_by_w, depends_on_w>> \in wires_to_inputs}

find_bad_connection_from_module(srt, module, wires_to_inputs) ==
    find_bad_connection_from(srt, OutputsOf(module), wires_to_inputs)

(* the connections from the module at which the check finds no sort on the *)
(* output or on the input and raises PyrtlInternalError                    *)
find_bad_connection_unannotated(srt, module, wires_to_inputs) ==
    {c \in wires_to_inputs :
        /\ c[1] \in OutputsOf(module)
        /\ srt[c[1]].tag = "None" \/ srt[c[2]].tag = "None"}

(* the outputs taken from a work list that have no sort: s.sort is None    *)
(* and s.sort.depends_on_set raises AttributeError                         *)
InterErrors(ns, srt, modules) ==
    {c[1] : c \in {x \in InterReached(ns, srt, modules) :
                      IsModOutput(x[1]) /\ srt[x[1]].tag = "None"}}

(* ---- wiresorts.check_module_interconnections ---- *)
(* the reports of the pass: one bad connection of each module that has     *)
(* one, or the failure of the first module whose check raises; the         *)
(* connections of a module are met in the order of a set, so any of them   *)
(* can be the first                                                        *)
BadConnections(srt, modules, wires_to_inputs) ==
    LET bad == [m \in modules |-> find_bad_connection_from_module(srt, m, wires_to_inputs)]
        raising == [m \in modules |->
                       find_bad_connection_unannotated(srt, m, wires_to_inputs)]
        badmods == {m \in modules : bad[m] \cup raising[m] # {}}
    IN {IF \E m \in badmods : bad_conn[m] \in raising[m]
        THEN [batch |-> "PyrtlInternalError", bad |-> {}, map |-> wires_to_inputs]
        ELSE [batch |-> IF badmods = {} THEN "ok" ELSE "error",
              bad |-> {bad_conn[m] : m \in badmods},
              map |-> wires_to_inputs]
          : bad_conn \in {f \in [badmods -> wires_to_inputs] :
                             \A m \in badmods : f[m] \in bad[m] \cup raising[m]}}

check_module_interconnections(ns, srt, modules) ==
    IF InterErrors(ns, srt, modules) # {}
    THEN {[batch |-> "AttributeError", bad |-> {}, map |-> {}]}
    ELSE UNION {BadConnections(srt, modules, wires_to_inputs)
                  : wires_to_inputs \in {build_intermodular_reachability_maps(ns, srt, modules)}}

Unchecked == report.batch = "none" /\ Cardinality(nets) < MaxNets

(* self <<= other on a module input with no check at the connection; the   *)
(* report keeps whether the eager check rejects the connection             *)
ConnectUnchecked ==
    /\ Unchecked
    /\ \E self \in ModInputs, other \in Sources :
          /\ ~is_driven(nets, self)
          /\ nets' = nets \cup {Net("w", {other}, self, FALSE)}
          /\ \E r \in ModInput_ilshift(nets, sort, self, other) :
                /\ last' = Attempt(self, other, r.result)
                /\ report' = [report EXCEPT !.eager = @ \/ r.result = "connection_error"]
    /\ UNCHANGED <<intdep, sort, mods, stack, cache, limits, err, fifovars>>

ScopeTwoVarOp == Unchecked /\ TwoVarOp
ScopeRegisterNext == Unchecked /\ RegisterNext
ScopeMemRead == Unchecked /\ MemRead

(* check_module_interconnections() at the end of the elaboration *)
CheckModuleInterconnections ==
    /\ report.batch = "none"
    /\ \E r \in check_module_interconnections(nets, sort, Modules) :
          /\ report' = [batch |-> r.batch, bad |-> r.bad, map |-> r.map,
                        eager |-> report.eager]
          /\ err' = IF r.batch = "ok" THEN err
                    ELSE IF r.batch = "error" THEN "invalid_interconnections"
                    ELSE r.batch
    /\ UNCHANGED <<nets, intdep, sort, last, mods, stack, cache, limits, fifovars>>

NextBatch ==
    \/ ConnectUnchecked
    \/ ScopeTwoVarOp
    \/ ScopeRegisterNext
    \/ ScopeMemRead
    \/ CheckModuleInterconnections

SpecBatch == Init /\ [][NextBatch]_vars

(* ---- the pass on a scope that holds a module with no sorts ---- *)
(* Module.__init__ registers the module in the block before its definition *)
(* and its annotation, so the modules that the pass is given can include   *)
(* one whose ports have sort None; here that is the last module            *)
Unannotated == [tag |-> "None", set |-> {}]

InitUnannotated ==
    /\ nets = {}
    /\ \E shp \in Circuits :
          /\ intdep = [m \in Modules |->
                          IF m = NumMods THEN {}
                          ELSE {<<(<<"I", m, p>>), (<<"O", m, 1>>)>> : p \in shp[m]}]
          /\ sort = [w \in ModInputs \cup ModOutputs |->
                          IF ModuleOf(w) = NumMods THEN Unannotated
                          ELSE get_wire_sort({<<(<<"I", ModuleOf(w), p>>),
                                                (<<"O", ModuleOf(w), 1>>)>>
                                                : p \in shp[ModuleOf(w)]}, w)]
    /\ last = NoAttempt
    /\ mods = <<>>
    /\ stack = <<>>
    /\ cache = EmptyFcn
    /\ limits = NoLimits
    /\ err = "none"
    /\ report = NoReport
    /\ fifo = NoFifo
    /\ pins = NoPins
    /\ trace = NoTrace

NextUnannotated ==
    \/ ConnectUnchecked
    \/ ScopeTwoVarOp
    \/ CheckModuleInterconnections

SpecUnannotated == InitUnannotated /\ [][NextUnannotated]_vars

(***************************************************************************)
(* Claims about the check of a whole scope at the end of the elaboration   *)
(***************************************************************************)

(* the step in which check_module_interconnections examines the scope *)
BatchStep == report.batch = "none" /\ report'.batch # "none"

(* the wiring of the scope with the interiors replaced by the sorts *)
ScopeEdges == CombEdges(nets) \cup SortEdges

(* the module inputs that the wiring of the scope leads to from output o *)
ReachedInputs(o) == {i \in ModInputs : i \in ReachPlus(ScopeEdges, o)}

(* the connections from an output to an input that lie on a combinational  *)
(* loop: the output depends on an input r and the input is needed by an    *)
(* output n from which the wiring leads back to r                          *)
AllBad ==
    {c \in ModOutputs \X ModInputs :
        /\ c[2] \in ReachedInputs(c[1])
        /\ \E r \in sort[c[1]].set, n \in sort[c[2]].set : r \in ReachedInputs(n)}

(* the bad connections that are wired from the output to the input with   *)
(* no module in between                                                    *)
WiredBad == {c \in AllBad : c[2] \in ReachPlus(CombEdges(nets), c[1])}

(* C15: the pass over the whole scope raises the invalid-interconnection   *)
(* error if and only if the check made at one of the connections, before   *)
(* it was installed, rejects it.                                           *)
C15_EagerAndBatchAgree ==
    [][BatchStep => (report'.batch = "error" <=> report.eager)]_vars

(* C17: in the map of the pass, every input recorded for an output o       *)
(* belongs to a module other than the module of o.                         *)
C17_OnlyOtherModulesInputs ==
    [][BatchStep => \A c \in report'.map : ModuleOf(c[2]) # ModuleOf(c[1])]_vars

(* C17, as the code has it: the map records module inputs under module     *)
(* outputs, and an input of the module of o itself is recorded for o       *)
(* exactly when the wiring of the scope leads from o back to it.           *)
C17_OwnModuleInputsRecorded ==
    [][BatchStep =>
         /\ report'.map \subseteq ModOutputs \X ModInputs
         /\ \A o \in ModOutputs : \A i \in InputsOf(ModuleOf(o)) :
               <<o, i>> \in report'.map <=> i \in ReachedInputs(o)]_vars

(* the pass has run on a scope where an output is wired back to an input   *)
(* of its own module                                                       *)
C17_Witness ==
    /\ report.batch # "none"
    /\ \E c \in report.map :
          /\ ModuleOf(c[1]) = ModuleOf(c[2])
          /\ \E n \in nets : n.dest = c[2] /\ c[1] \in n.args

C20_EveryBadConnectionListed ==
    [][BatchStep /\ Cardinality(WiredBad) > 1 => WiredBad \subseteq report'.bad]_vars

(***************************************************************************)
(* Claims about a connection made while a module is inside its definition  *)
(***************************************************************************)

(* the step of an attempt self <<= other on a module input not yet driven *)
IsAttemptStep == last' # last /\ ~is_driven(nets, last'.to)
AttemptInstalled == Net("w", {last'.from}, last'.to, FALSE) \in nets'

UnannotatedReached ==
    {w \in ModInputs \cup ModOutputs :
        /\ sort[w].tag = "None"
        /\ \/ IsModOutput(w) /\ ReachedInputs(w) # {}
           \/ IsModInput(w) /\ \E o \in ModOutputs : w \in ReachedInputs(o)}

(* C21: when the pass over a scope comes to a module output or input with  *)
(* no computed sort, it ends with the internal-consistency failure that    *)
(* names the wire, and with no verdict.                                    *)
C21_UnannotatedIsInternalError ==
    [][BatchStep /\ UnannotatedReached # {} => report'.batch = "PyrtlInternalError"]_vars

(* C22: the check made at a connection comes to an end in every state of   *)
(* the circuit in which it is called, the states whose wiring already      *)
(* holds a combinational loop through module ports included.               *)
C22_EagerCheckTerminates == last.result # "hang"

(* ---- the work lists of wiresorts.py as lists ---- *)
WalkFuel == 32

RECURSIVE SeqOf(_)
SeqOf(S) == IF S = {} THEN <<>>
            ELSE LET x == CHOOSE y \in S : TRUE IN <<x>> \o SeqOf(S \ {x})

Walked(taken, ended) == [taken |-> taken, ended |-> ended]

(* a variant of the loop below that keeps no record of the wires taken *)
RECURSIVE IntraWalk_unmarked(_, _, _, _, _, _, _)
IntraWalk_unmarked(ns, srt, output, work_list, seen, taken, fuel) ==
    IF work_list = <<>> THEN Walked(taken, TRUE)
    ELSE IF fuel = 0 THEN Walked(taken, FALSE)
    ELSE LET a == work_list[Len(work_list)]
             rest == SubSeq(work_list, 1, Len(work_list) - 1)
         IN IF IntraError(srt, output, a) # "none" THEN Walked(Append(taken, a), TRUE)
            ELSE IntraWalk_unmarked(ns, srt, output,
                                    rest \o SeqOf(IntraExpand(ns, srt, output, a)),
                                    seen \cup {a}, Append(taken, a), fuel - 1)

(* the loop 'while work_list' of _build_intramodular_reachability_maps for *)
(* one output: a is popped from the end of the list, skipped when it is in *)
(* seen, and else marked and expanded; taken lists the wires expanded, and *)
(* ended tells whether the list ran empty (or the loop raised) within fuel *)
(* pops                                                                    *)
RECURSIVE IntraWalk(_, _, _, _, _, _, _)
IntraWalk(ns, srt, output, work_list, seen, taken, fuel) ==
    IF work_list = <<>> THEN Walked(taken, TRUE)
    ELSE IF fuel = 0 THEN Walked(taken, FALSE)
    ELSE LET a == work_list[Len(work_list)]
             rest == SubSeq(work_list, 1, Len(work_list) - 1)
         IN IF a \in seen THEN IntraWalk(ns, srt, output, rest, seen, taken, fuel - 1)
            ELSE IF IntraError(srt, output, a) # "none" THEN Walked(Append(taken, a), TRUE)
            ELSE IntraWalk(ns, srt, output,
                           rest \o SeqOf(IntraExpand(ns, srt, output, a)),
                           seen \cup {a}, Append(taken, a), fuel - 1)

(* the same loop of _build_intermodular_reachability_maps for one input *)
RECURSIVE InterWalk(_, _, _, _, _, _)
InterWalk(ns, srt, work_list, seen, taken, fuel) ==
    IF work_list = <<>> THEN Walked(taken, TRUE)
    ELSE IF fuel = 0 THEN Walked(taken, FALSE)
    ELSE LET s == work_list[Len(work_list)]
             rest == SubSeq(work_list, 1, Len(work_list) - 1)
         IN IF s \in seen THEN InterWalk(ns, srt, rest, seen, taken, fuel - 1)
            ELSE InterWalk(ns, srt, rest \o SeqOf(InterExpand(ns, srt, s)),
                           seen \cup {s}, Append(taken, s), fuel - 1)

(* the walk from every output of a module, and from every input of a       *)
(* sealed module of the scope                                              *)
IntraWalks == [output \in UNION {BOutputs(m) : m \in ModIds} |->
                  IntraWalk(nets, sort, output, <<output>>, {}, <<>>, WalkFuel)]
InterWalks == [input \in UNION {BInputs(m) : m \in SealedMods} |->
                  InterWalk(nets, sort, <<input>>, {}, <<>>, WalkFuel)]

ExpandedOnce(taken) == \A j, k \in 1..Len(taken) : taken[j] = taken[k] => j = k
TakenSet(taken) == {taken[k] : k \in 1..Len(taken)}

(* the wiring with every sealed module replaced by the pairs of its sorts *)
SealedSortEdges ==
    UNION {{<<i, o>> : o \in sort[i].set} : i \in UNION {BInputs(m) : m \in SealedMods}}
OnCycle(w) == w \in ReachPlus(CombEdges(nets) \cup SealedSortEdges, w)

(* C23: the walk of the intramodular engine from an output and the walk of *)
(* the intermodular engine from an input come to an end on every netlist,  *)
(* one with a combinational cycle included, and expand no wire twice.      *)
C23_WalksEndAndExpandOnce ==
    /\ \A output \in DOMAIN IntraWalks :
          /\ IntraWalks[output].ended
          /\ ExpandedOnce(IntraWalks[output].taken)
    /\ \A input \in DOMAIN InterWalks :
          /\ InterWalks[input].ended
          /\ ExpandedOnce(InterWalks[input].taken)
          /\ TakenSet(InterWalks[input].taken) = InterSeen(nets, sort, {input}, {})

(* both walks go round a combinational cycle: a sealed module is wired     *)
(* back to itself through a wire of the module that holds it               *)
C23_Witness ==
    /\ \E output \in DOMAIN IntraWalks :
          \E a \in TakenSet(IntraWalks[output].taken) :
             ModuleOf(a) # ModuleOf(output) /\ OnCycle(a)
    /\ \E input \in DOMAIN InterWalks :
          \E s \in TakenSet(InterWalks[input].taken) : s # input /\ OnCycle(s)

(* ---- the two engines under every order of their loops ---- *)
(* a variant in which seen is not emptied before the next walk *)
SeenAtStart_carried(carried) == carried

(* 'seen = set()' before the walk of each output and of each input *)
SeenAtStart(carried) == {}

(* the sets seen can be when the work list has run empty, over every order *)
(* in which the wires are taken from it                                    *)
RECURSIVE IntraSeenAll(_, _, _, _, _)
IntraSeenAll(ns, srt, output, work_list, seen) ==
    IF work_list \subseteq seen THEN {seen}
    ELSE UNION {IntraSeenAll(ns, srt, output,
                             (work_list \ {a}) \cup IntraExpand(ns, srt, output, a),
                             seen \cup {a})
                  : a \in work_list \ seen}

RECURSIVE InterSeenAll(_, _, _, _)
InterSeenAll(ns, srt, work_list, seen) ==
    IF work_list \subseteq seen THEN {seen}
    ELSE UNION {InterSeenAll(ns, srt, (work_list \ {s}) \cup InterExpand(ns, srt, s),
                             seen \cup {s})
                  : s \in work_list \ seen}

(* the pairs <<a, output>> that needed_by can hold at the end, over every  *)
(* order of the outputs and of the work lists                              *)
RECURSIVE IntraRecords(_, _, _, _, _)
IntraRecords(ns, srt, outputs, carried, needed_by) ==
    IF outputs = {} THEN {needed_by}
    ELSE UNION {UNION {IntraRecords(ns, srt, outputs \ {output}, seen,
                           needed_by \cup {<<a, output>>
                                             : a \in {x \in seen \ SeenAtStart(carried) :
                                                         RecordsNeededBy(output, x)}})
                         : seen \in IntraSeenAll(ns, srt, output, {output},
                                                 SeenAtStart(carried))}
                  : output \in outputs}

(* the pairs <<s, input>> that wires_to_inputs can hold at the end, over   *)
(* every order of the inputs and of the work lists                         *)
RECURSIVE InterRecords(_, _, _, _, _)
InterRecords(ns, srt, inputs, carried, wires_to_inputs) ==
    IF inputs = {} THEN {wires_to_inputs}
    ELSE UNION {UNION {InterRecords(ns, srt, inputs \ {input}, seen,
                           wires_to_inputs \cup {<<s, input>>
                                                   : s \in {x \in seen \ SeenAtStart(carried) :
                                                               IsModOutput(x)}})
                         : seen \in InterSeenAll(ns, srt, {input}, SeenAtStart(carried))}
                  : input \in inputs}

(* the maps of a module, and the maps and the verdicts of the pass over    *)
(* the sealed modules that a module holds, under every order               *)
IntraMapsOf(m) == IntraRecords(nets, sort, BOutputs(m), {}, {})
ChildInputs(p) == UNION {BInputs(c) : c \in SealedChildren(p)}
ChildOutputs(p) == UNION {BOutputs(c) : c \in SealedChildren(p)}
InterMapsOf(p) == InterRecords(nets, sort, ChildInputs(p), {}, {})
RaisesOn(p, wires_to_inputs) ==
    \E c \in SealedChildren(p) :
        find_bad_connection_from(sort, BOutputs(c), wires_to_inputs) # {}

C25_SealedSortsUnchanged ==
    [][\A m \in SealedMods : \A w \in Ports(m) : sort'[w] = sort[w]]_vars

(* after a module was sealed, a module of its class took its sorts from    *)
(* the cache and a connection to an input of the first was accepted        *)
C25_Witness ==
    /\ last.result = "accepted"
    /\ \E m1, m2 \in SealedMods :
          /\ m1 < m2
          /\ mods[m2].cached
          /\ last.to \in BInputs(m1)
          /\ sort[last.to].tag = "Needed"

(* C26: in every annotated module, computed or taken from the cache, an    *)
(* output o is in the set of the sort of an input i exactly when i is in   *)
(* the set of the sort of o.                                               *)
C26_SortsAreDual ==
    \A m \in SealedMods : \A i \in BInputs(m), o \in BOutputs(m) :
        o \in sort[i].set <=> i \in sort[o].set

(* a module annotated from the cache has an output that depends on one of  *)
(* its two inputs only                                                     *)
C26_Witness ==
    \E m \in SealedMods :
        /\ mods[m].cached
        /\ \E i1, i2 \in BInputs(m), o \in BOutputs(m) :
              /\ o \in sort[i1].set /\ i1 \in sort[o].set
              /\ o \notin sort[i2].set /\ i2 \notin sort[o].set

(* C27: in every annotated module a Free or Giving sort has an empty set,  *)
(* a Needed sort a non-empty set of outputs of the module of the input and *)
(* a Dependent sort a non-empty set of inputs of the module of the output. *)
C27_SortSetsWellFormed ==
    \A m \in SealedMods : \A w \in Ports(m) :
        /\ sort[w].tag \in (IF IsModInput(w) THEN {"Free", "Needed"}
                            ELSE {"Giving", "Dependent"})
        /\ sort[w].tag \in {"Free", "Giving"} => sort[w].set = {}
        /\ sort[w].tag = "Needed" => sort[w].set # {} /\ sort[w].set \subseteq BOutputs(m)
        /\ sort[w].tag = "Dependent" => sort[w].set # {} /\ sort[w].set \subseteq BInputs(m)

(* a module annotated from the cache has a Needed input and a Dependent    *)
(* output, and a module computed before it has sorts too                   *)
C27_Witness ==
    \E m1, m2 \in SealedMods :
        /\ m1 # m2 /\ ~mods[m1].cached /\ mods[m2].cached
        /\ \E i \in BInputs(m2), o \in BOutputs(m2) :
              sort[i].tag = "Needed" /\ sort[o].tag = "Dependent"
        /\ \E w \in Ports(m1) : sort[w].tag \in {"Free", "Giving"}

(* ---- Claims about the drivers of the ports ---- *)

DriversOf(ns, w) == {n \in ns : n.dest = w}
NewNets == nets' \ nets

(* C28: every module input and output is the destination of at most one   *)
(* net; an attempt on a driven port is refused and adds no net, no net is  *)
(* added to an input of a module that is inside its definition, and none   *)
(* to an output of a module whose definition has ended.                    *)
C28_OneDriverPerPort ==
    [][/\ \A m \in ModIds : \A w \in Ports(m) : Cardinality(DriversOf(nets', w)) <= 1
       /\ last' # last /\ is_driven(nets, last'.to)
             => last'.result # "accepted" /\ err' # "none" /\ nets' = nets
       /\ \A n \in NewNets :
             /\ IsModInput(n.dest) => ModuleOf(n.dest) \notin InDefinition(stack)
             /\ IsModOutput(n.dest) => ModuleOf(n.dest) \in InDefinition(stack)]_vars

(* an output that has a driver is assigned again inside its definition and *)
(* the attempt is refused                                                  *)
C28_Witness ==
    /\ IsModOutput(last.to)
    /\ last.result = "already_driven"
    /\ ModuleOf(last.to) \in InDefinition(stack)
    /\ Cardinality(DriversOf(nets, last.to)) = 1

(* ---- Part D: the Fifo of rtllib/fifos.py, one step of the simulation    *)
(* per action ---- *)

FifoMaxNels == 4
FifoBitwidth == 2
RunMaxNels == 3
RunAccepted == 4

Bit == {0, 1}
Pow2(n) == 2 ^ n
Bool2Bit(b) == IF b THEN 1 ELSE 0

(* len(pyrtl.as_wires(nels)): the width of the constant nels *)
RECURSIVE BitLength(_)
BitLength(n) == IF n < 2 THEN 1 ELSE 1 + BitLength(n \div 2)

bw(f) == BitLength(f.nels)
DataValues(f) == 0..(Pow2(f.bitwidth) - 1)

(* the combinational logic *)
ready_out(f) == Bool2Bit(f.count < f.nels)
valid_out(f) == Bool2Bit(f.count > 0)
enqueue(f, p) == ready_out(f) * p.valid_in
dequeue(f, p) == valid_out(f) * p.ready_in
data_out(f) == f.queue[f.read_ix]

(* the sequential logic: the value each register and the memory take at    *)
(* the end of the cycle                                                    *)
next_queue(f, p) ==
    IF enqueue(f, p) = 1 /\ p.reset = 0
    THEN [f.queue EXCEPT ![f.write_ix] = p.data_in]
    ELSE f.queue

next_read_ix(f, p) ==
    IF p.reset = 1 THEN 0
    ELSE IF dequeue(f, p) = 1
    THEN IF f.read_ix = f.nels - 1 THEN 0 ELSE (f.read_ix + 1) % Pow2(bw(f))
    ELSE f.read_ix

next_write_ix(f, p) ==
    IF p.reset = 1 THEN 0
    ELSE IF enqueue(f, p) = 1
    THEN IF f.write_ix = f.nels - 1 THEN 0 ELSE (f.write_ix + 1) % Pow2(bw(f))
    ELSE f.write_ix

(* a variant of the count that takes the enqueue branch whenever an        *)
(* element is accepted                                                     *)
next_count_enqueue_first(f, p) ==
    IF p.reset = 1 THEN 0
    ELSE IF enqueue(f, p) = 1 THEN (f.count + 1) % Pow2(bw(f) + 1)
    ELSE IF dequeue(f, p) = 1 THEN (f.count + Pow2(bw(f) + 1) - 1) % Pow2(bw(f) + 1)
    ELSE f.count

next_count(f, p) ==
    IF p.reset = 1 THEN 0
    ELSE IF enqueue(f, p) = 1 /\ dequeue(f, p) = 0
    THEN (f.count + 1) % Pow2(bw(f) + 1)
    ELSE IF dequeue(f, p) = 1 /\ enqueue(f, p) = 0
    THEN (f.count + Pow2(bw(f) + 1) - 1) % Pow2(bw(f) + 1)
    ELSE f.count

(* Fifo(bitwidth, nels) after its construction: registers and memory at 0 *)
NewFifo(bitwidth, nels) ==
    [bitwidth |-> bitwidth, nels |-> nels, count |-> 0, read_ix |-> 0, write_ix |-> 0,
     queue |-> [a \in 0..(Pow2(BitLength(nels)) - 1) |-> 0]]

(* the inputs of one cycle *)
Pins(f, resets) ==
    [reset : resets, ready_in : Bit, valid_in : Bit, data_in : DataValues(f)]

(* what the cycles before have accepted, written into the memory and       *)
(* delivered; early is set when an element is delivered in a cycle that no *)
(* earlier cycle accepted it in                                            *)
NewTrace ==
    [first |-> TRUE, after_reset |-> FALSE, accepted |-> <<>>, stored |-> <<>>,
     delivered |-> <<>>, early |-> FALSE]

Traced(t, f, p) ==
    LET deq == dequeue(f, p) = 1
        enq == enqueue(f, p) = 1
    IN [first |-> FALSE,
        after_reset |-> p.reset = 1,
        accepted |-> IF enq THEN Append(t.accepted, p.data_in) ELSE t.accepted,
        stored |-> IF enq /\ p.reset = 0 THEN Append(t.stored, p.data_in)
                   ELSE t.stored,
        delivered |-> IF deq THEN Append(t.delivered, data_out(f)) ELSE t.delivered,
        early |-> t.early \/ (deq /\ Len(t.delivered) + 1 > Len(t.accepted))]

Untraced(t, f, p) ==
    [t EXCEPT !.first = FALSE, !.after_reset = p.reset = 1]

InitFifo(maxnels, resets) ==
    /\ nets = {}
    /\ intdep = EmptyFcn
    /\ sort = EmptyFcn
    /\ last = NoAttempt
    /\ mods = <<>>
    /\ stack = <<>>
    /\ cache = EmptyFcn
    /\ limits = NoLimits
    /\ err = "none"
    /\ report = NoReport
    /\ \E nels \in 1..maxnels :
          /\ fifo = NewFifo(FifoBitwidth, nels)
          /\ pins \in Pins(NewFifo(FifoBitwidth, nels), resets)
    /\ trace = NewTrace

(* one step of the simulation: the registers and the memory take their     *)
(* next values and the inputs of the next cycle are set                    *)
Clock(resets, traced) ==
    /\ fifo' = [fifo EXCEPT !.count = next_count(fifo, pins),
                            !.read_ix = next_read_ix(fifo, pins),
                            !.write_ix = next_write_ix(fifo, pins),
                            !.queue = next_queue(fifo, pins)]
    /\ pins' \in Pins(fifo, resets)
    /\ trace' = IF traced THEN Traced(trace, fifo, pins) ELSE Untraced(trace, fifo, pins)
    /\ UNCHANGED <<nets, intdep, sort, last, modvars>>

(* a cycle of a run with any inputs *)
FifoCycle == Clock(Bit, FALSE)

(* a cycle of a run whose reset is 0 after the first cycle *)
FifoRunCycle ==
    /\ Len(trace.accepted) < RunAccepted
    /\ Clock({0}, TRUE)

NextFifo == FifoCycle
SpecFifo == InitFifo(FifoMaxNels, Bit) /\ [][NextFifo]_vars

NextFifoRun == FifoRunCycle
SpecFifoRun == InitFifo(RunMaxNels, Bit) /\ [][NextFifoRun]_vars

(* ---- Claims about the Fifo ---- *)

(* C29: in every cycle 0 <= count <= nels, read_ix < nels, write_ix <     *)
(* nels and write_ix = (read_ix + count) mod nels; ready_out is 1 exactly  *)
(* when count < nels and valid_out exactly when count > 0; in the cycle    *)
(* after one with reset = 1 count, read_ix and write_ix are 0.             *)
C29_FifoInvariants ==
    fifo # NoFifo =>
        /\ 0 <= fifo.count /\ fifo.count <= fifo.nels
        /\ fifo.read_ix \in 0..(fifo.nels - 1)
        /\ fifo.write_ix \in 0..(fifo.nels - 1)
        /\ fifo.write_ix = (fifo.read_ix + fifo.count) % fifo.nels
        /\ ready_out(fifo) = 1 <=> fifo.count < fifo.nels
        /\ valid_out(fifo) = 1 <=> fifo.count > 0
        /\ trace.after_reset =>
              fifo.count = 0 /\ fifo.read_ix = 0 /\ fifo.write_ix = 0

(* a full Fifo whose indices have wrapped, asked to accept and to deliver  *)
(* in the same cycle                                                       *)
C29_Witness ==
    /\ fifo # NoFifo
    /\ fifo.nels = FifoMaxNels /\ fifo.count = fifo.nels
    /\ fifo.read_ix > 0 /\ fifo.write_ix = fifo.read_ix
    /\ pins.valid_in = 1 /\ pins.ready_in = 1

(* the delivered elements are the first of the accepted ones, in order *)
IsPrefix(s, t) == Len(s) <= Len(t) /\ \A k \in 1..Len(s) : s[k] = t[k]

(* C30: in a run whose reset is 1 in the first cycle at most, the values   *)
(* of data_out in the cycles with valid_out = ready_in = 1 are a prefix of *)
(* the values of data_in in the cycles with ready_out = valid_in = 1, and  *)
(* no element is delivered before the cycle after the one that accepted it.*)
C30_DeliveredIsPrefixOfAccepted ==
    fifo # NoFifo => IsPrefix(trace.delivered, trace.accepted) /\ ~trace.early

(* the elements delivered are the first of those written into the memory, *)
(* in order: the element accepted in a cycle with reset = 1 is not written *)
FifoDeliversStoredInOrder ==
    fifo # NoFifo => IsPrefix(trace.delivered, trace.stored) /\ ~trace.early

====
